---------------------------- MODULE Spec2Model ----------------------------
(***************************************************************************)
(* csv2json: conversion of CSV text into a JSON array of records.          *)
(*                                                                         *)
(* The model follows two conversion drivers of the repository:             *)
(*   - csv2Json(options)      (package main, options-struct variant)       *)
(*   - Execute -> Instrument  (package converter, logger variant)          *)
(* together with the helpers they share (getCsvReader, fieldsToRecord)     *)
(* and the behaviour of the library calls they make (bufio.ReadRune,       *)
(* csv.Reader.Read, json.Encoder.Encode).                                  *)
(*                                                                         *)
(* A stream is a sequence of runes; a rune is a one-character string.      *)
(* A field, a column name and the JSON text are sequences of runes too.    *)
(***************************************************************************)
EXTENDS Integers, Sequences, FiniteSets, TLC

VARIABLES
    driver,      \* the conversion driver that runs: csv2Json or Instrument
    entry,       \* how the caller invokes it: Execute(o) passes a copy of
                 \* its options, Instrument(&o) a pointer to them
    pending,     \* the inputs of the invocations the caller has yet to make
    sticky,      \* whether a read failure of the input source persists
    options,     \* the caller's options: ColNames (override), SkipErrors
    input,       \* the content of options.CsvInput when the call is made
    reader,      \* the csv.Reader: buf (unread stream), numLine, FieldsPerRecord
    colNames,    \* the resolved column names
    rowFields,   \* the row of the latest successful reader.Read()
    thisRecord,  \* the result of the latest fieldsToRecord call
    records,     \* allRecords / records: the record collection
    skipped,     \* numRowsWithErrors / skipped
    trace,       \* side effects in the order they happen: diagnostics, write
    jsonOutput,  \* the runes written to options.JsonOutput
    ret,         \* the driver's return value (an error value) once returned
    pc           \* position of the driver

vars == <<driver, entry, pending, sticky, options, input, reader, colNames,
          rowFields, thisRecord, records, skipped, trace, jsonOutput, ret, pc>>

---------------------------------------------------------------------------
(* Bounds of the model *)

MaxLines == 4
MaxCols == 3
MaxFields == 3

---------------------------------------------------------------------------
(* Runes *)

NL == "\n"
Quote == "\""
Comma == ","
Space == " "
BOM == "BOM"
\* a position of the source at which the underlying Read call fails
IOFail == "ERR"

\* the Unicode code point of a rune, which orders runes as their UTF-8 bytes
CodePoint(r) ==
    CASE r = NL -> 10
      [] r = Space -> 32
      [] r = Quote -> 34
      [] r = Comma -> 44
      [] r = "1" -> 49
      [] r = "2" -> 50
      [] r = "3" -> 51
      [] r = ":" -> 58
      [] r = "[" -> 91
      [] r = "\\" -> 92
      [] r = "]" -> 93
      [] r = "a" -> 97
      [] r = "b" -> 98
      [] r = "c" -> 99
      [] r = "l" -> 108
      [] r = "n" -> 110
      [] r = "u" -> 117
      [] r = "x" -> 120
      [] r = "y" -> 121
      [] r = "{" -> 123
      [] r = "}" -> 125
      [] r = BOM -> 65279

---------------------------------------------------------------------------
(* Values *)

\* error values
NoErr == [kind |-> "nil", line |-> 0]
EOF == [kind |-> "EOF", line |-> 0]
ErrIO == [kind |-> "io", line |-> 0]
ParseError(k, startLine) == [kind |-> k, line |-> startLine]
ErrFieldCount(startLine) == ParseError("ErrFieldCount", startLine)
ErrQuote(startLine) == ParseError("ErrQuote", startLine)
ErrBareQuote(startLine) == ParseError("ErrBareQuote", startLine)

IsParseError(e) == e.kind \in {"ErrFieldCount", "ErrQuote", "ErrBareQuote"}

---------------------------------------------------------------------------
(* Sequences *)

Range(s) == {s[i] : i \in 1..Len(s)}

\* the first index of s that holds a member of S, 0 when there is none
RECURSIVE IndexAny(_, _, _)
IndexAny(s, S, i) ==
    IF i > Len(s) THEN 0
    ELSE IF s[i] \in S THEN i
    ELSE IndexAny(s, S, i + 1)

IndexRune(s, r) == IndexAny(s, {r}, 1)

From(s, i) == SubSeq(s, i, Len(s))

RECURSIVE Concat(_)
Concat(ss) == IF ss = <<>> THEN <<>> ELSE Head(ss) \o Concat(Tail(ss))

\* the element of a set of one element; The({e : x \in {v}}) is e with x
\* standing for the value of v, which is then worked out once
The(S) == CHOOSE x \in S : TRUE

\* sequences over S of length at most n
SeqsUpTo(S, n) == UNION {[1..k -> S] : k \in 0..n}

---------------------------------------------------------------------------
(* encoding/csv: Reader.Read, as the drivers use it (Comma = ',', no        *)
(* Comment, LazyQuotes and TrimLeadingSpace off, ReuseRecord off).          *)
(* A reader is [buf, numLine, FieldsPerRecord]: the unread part of the      *)
(* stream behind the bufio.Reader, the count of lines read so far and the   *)
(* field count to enforce (0: take it from the first record).               *)

\* the largest line count kept exactly; it is reached only while a read
\* failure of the source repeats
LineCap == 2 * MaxLines + 4

lengthNL(line) == IF Len(line) > 0 /\ line[Len(line)] = NL THEN 1 ELSE 0

\* bufio.Reader.ReadSlice('\n') as csv.Reader.readLine wraps it: the line up
\* to and including the next newline; at the end of the data the rest of
\* the data, or EOF when there is none; the data before a failing read
\* together with the failure.
readLine(rd, stk) ==
    LET buf == rd.buf
        i == IndexAny(buf, {NL, IOFail}, 1)
        n == IF rd.numLine < LineCap THEN rd.numLine + 1 ELSE rd.numLine
    IN  IF i = 0
        THEN IF buf = <<>>
             THEN [line |-> <<>>, err |-> EOF,
                   rd |-> [rd EXCEPT !.numLine = n]]
             ELSE [line |-> buf, err |-> NoErr,
                   rd |-> [rd EXCEPT !.buf = <<>>, !.numLine = n]]
        ELSE IF buf[i] = NL
        THEN [line |-> SubSeq(buf, 1, i), err |-> NoErr,
              rd |-> [rd EXCEPT !.buf = From(buf, i + 1), !.numLine = n]]
        ELSE [line |-> SubSeq(buf, 1, i - 1), err |-> ErrIO,
              rd |-> [rd EXCEPT !.buf = IF stk THEN From(buf, i)
                                         ELSE From(buf, i + 1),
                                !.numLine = n]]

\* the first loop of readRecord: read a line, skipping empty lines
RECURSIVE nextLine(_, _)
nextLine(rd0, stk) ==
    The({ LET rl == readLine(rd, stk)
          IN  IF rl.err = NoErr /\ Len(rl.line) = lengthNL(rl.line)
              THEN nextLine(rl.rd, stk)
              ELSE rl
          : rd \in {rd0} })

\* the parseField loop of readRecord.  p is [line, rd, errRead, dst, cur,
\* err]: the rest of the current line, the reader, the pending read error,
\* the fields so far, the quoted field being collected, the parse error.
RECURSIVE parseField(_, _, _)
RECURSIVE parseQuoted(_, _, _)
parseField(p0, recLine, stk) ==
    The({ IF p.line = <<>> \/ Head(p.line) # Quote
          THEN \* non-quoted field
               LET i == IndexRune(p.line, Comma)
                   field == IF i > 0 THEN SubSeq(p.line, 1, i - 1)
                            ELSE SubSeq(p.line, 1, Len(p.line) - lengthNL(p.line))
               IN  IF Quote \in Range(field)
                   THEN [p EXCEPT !.err = ErrBareQuote(recLine)]
                   ELSE IF i > 0
                   THEN parseField([p EXCEPT !.dst = Append(@, field),
                                             !.line = From(p.line, i + 1)],
                                   recLine, stk)
                   ELSE [p EXCEPT !.dst = Append(@, field)]
          ELSE \* quoted field
               parseQuoted([p EXCEPT !.line = Tail(@), !.cur = <<>>], recLine, stk)
          : p \in {p0} })

parseQuoted(p0, recLine, stk) ==
    The({ LET i == IndexRune(p.line, Quote)
          IN  IF i > 0
              THEN \* hit the next quote
                   LET cur == p.cur \o SubSeq(p.line, 1, i - 1)
                       rest == From(p.line, i + 1)
                   IN  IF rest # <<>> /\ Head(rest) = Quote
                       THEN parseQuoted([p EXCEPT !.line = Tail(rest),
                                                  !.cur = Append(cur, Quote)],
                                        recLine, stk)
                       ELSE IF rest # <<>> /\ Head(rest) = Comma
                       THEN parseField([p EXCEPT !.line = Tail(rest),
                                                 !.dst = Append(@, cur),
                                                 !.cur = <<>>],
                                       recLine, stk)
                       ELSE IF lengthNL(rest) = Len(rest)
                       THEN [p EXCEPT !.line = rest, !.dst = Append(@, cur)]
                       ELSE [p EXCEPT !.err = ErrQuote(recLine)]
              ELSE IF Len(p.line) > 0
              THEN \* hit the end of the line: the field goes on in the next line
                   IF p.errRead # NoErr
                   THEN [p EXCEPT !.cur = @ \o p.line]
                   ELSE LET rl == readLine(p.rd, stk)
                        IN  parseQuoted([p EXCEPT !.cur = @ \o p.line,
                                                  !.line = rl.line,
                                                  !.rd = rl.rd,
                                                  !.errRead = IF rl.err = EOF
                                                              THEN NoErr
                                                              ELSE rl.err],
                                        recLine, stk)
              ELSE \* abrupt end of the data
                   IF p.errRead = NoErr
                   THEN [p EXCEPT !.err = ErrQuote(recLine)]
                   ELSE [p EXCEPT !.dst = Append(@, p.cur)]
          : p \in {p0} })

\* the end of readRecord without the check of the field count
checkFieldsPerRecord_noCheck(p, recLine) ==
    [record |-> p.dst,
     err |-> IF p.err = NoErr THEN p.errRead ELSE p.err,
     rd |-> IF p.rd.FieldsPerRecord = 0
            THEN [p.rd EXCEPT !.FieldsPerRecord = Len(p.dst)]
            ELSE p.rd]

\* the end of readRecord: the error to return (a parse error before a read
\* error) and the check of the field count against FieldsPerRecord
checkFieldsPerRecord(p0, recLine) ==
    The({ LET err == IF p.err = NoErr THEN p.errRead ELSE p.err
              fpr == p.rd.FieldsPerRecord
          IN  IF fpr > 0
              THEN [record |-> p.dst,
                    err |-> IF Len(p.dst) # fpr /\ err = NoErr
                            THEN ErrFieldCount(recLine)
                            ELSE err,
                    rd |-> p.rd]
              ELSE IF fpr = 0
              THEN [record |-> p.dst, err |-> err,
                    rd |-> [p.rd EXCEPT !.FieldsPerRecord = Len(p.dst)]]
              ELSE [record |-> p.dst, err |-> err, rd |-> p.rd]
          : p \in {p0} })

\* readRecord from the first line rl that is not empty on
readRecord(rl0, stk) ==
    The({ IF rl.err = EOF
          THEN [record |-> <<>>, err |-> EOF, rd |-> rl.rd]
          ELSE checkFieldsPerRecord(
                   parseField([line |-> rl.line, rd |-> rl.rd, errRead |-> rl.err,
                               dst |-> <<>>, cur |-> <<>>, err |-> NoErr],
                              rl.rd.numLine, stk),
                   rl.rd.numLine)
          : rl \in {rl0} })

\* csv.Reader.Read: [record, err, rd], rd being the reader afterwards
Read(rd, stk) == readRecord(nextLine(rd, stk), stk)

\* csv.NewReader
NewReader(buf) == [buf |-> buf, numLine |-> 0, FieldsPerRecord |-> 0]

---------------------------------------------------------------------------
(* Records and their JSON encoding *)

\* a record (map[string]string) is a function from column names to values
EmptyRecord == [k \in {} |-> <<>>]

\* rec[k] = v that keeps the value a key already has
Put_keepsFirst(rec, k, v) ==
    [x \in (DOMAIN rec) \cup {k} |-> IF x \in DOMAIN rec THEN rec[x] ELSE v]

\* rec[k] = v
Put(rec, k, v) ==
    [x \in (DOMAIN rec) \cup {k} |-> IF x = k THEN v ELSE rec[x]]

\* the loop of fieldsToRecord from index i on: rec[colNames[i]] = rowValues[i]
\* for each index of colNames; indexing rowValues out of range panics
RECURSIVE fieldsToRecordFrom(_, _, _, _)
fieldsToRecordFrom(cols, row, i, rec) ==
    IF i > Len(cols) THEN [panic |-> FALSE, rec |-> rec]
    ELSE IF i > Len(row) THEN [panic |-> TRUE, rec |-> EmptyRecord]
    ELSE fieldsToRecordFrom(cols, row, i + 1, Put(rec, cols[i], row[i]))

fieldsToRecord(cols, row) == fieldsToRecordFrom(cols, row, 1, EmptyRecord)

\* var records []record: a nil slice
makeRecords_nil == [isNil |-> TRUE, elems |-> <<>>]

\* make([]record, 0): an empty slice that is not nil
makeRecords == [isNil |-> FALSE, elems |-> <<>>]

\* the record put in front of the collection
append_front(recs, rec) == [isNil |-> FALSE, elems |-> <<rec>> \o recs.elems]

\* append(records, rec)
append(recs, rec) == [isNil |-> FALSE, elems |-> Append(recs.elems, rec)]

\* the order of strings encoding/json sorts map keys by
RECURSIVE Less(_, _)
Less(s, t) ==
    IF t = <<>> THEN FALSE
    ELSE IF s = <<>> THEN TRUE
    ELSE IF CodePoint(Head(s)) # CodePoint(Head(t))
    THEN CodePoint(Head(s)) < CodePoint(Head(t))
    ELSE Less(Tail(s), Tail(t))

RECURSIVE SortKeys(_)
SortKeys(S) ==
    IF S = {} THEN <<>>
    ELSE LET m == CHOOSE k \in S : \A o \in S : o = k \/ Less(k, o)
         IN  <<m>> \o SortKeys(S \ {m})

\* a JSON string: quotes around the runes, '"' and newline escaped
RECURSIVE EscapeRunes(_)
EscapeRunes(s) ==
    IF s = <<>> THEN <<>>
    ELSE (CASE Head(s) = Quote -> <<"\\", Quote>>
            [] Head(s) = NL -> <<"\\", "n">>
            [] OTHER -> <<Head(s)>>) \o EscapeRunes(Tail(s))

EncodeString(s) == <<Quote>> \o EscapeRunes(s) \o <<Quote>>

RECURSIVE EncodePairs(_, _)
EncodePairs(rec, keys) ==
    IF keys = <<>> THEN <<>>
    ELSE EncodeString(Head(keys)) \o <<":">> \o EncodeString(rec[Head(keys)])
         \o (IF Len(keys) > 1 THEN <<Comma>> ELSE <<>>)
         \o EncodePairs(rec, Tail(keys))

EncodeRecord(rec) == <<"{">> \o EncodePairs(rec, SortKeys(DOMAIN rec)) \o <<"}">>

RECURSIVE EncodeElems(_)
EncodeElems(elems) ==
    IF elems = <<>> THEN <<>>
    ELSE EncodeRecord(Head(elems))
         \o (IF Len(elems) > 1 THEN <<Comma>> ELSE <<>>)
         \o EncodeElems(Tail(elems))

\* json.NewEncoder(w).Encode(records): the text written to w
Encode(recs) ==
    IF recs.isNil THEN <<"n", "u", "l", "l", NL>>
    ELSE <<"[">> \o EncodeElems(recs.elems) \o <<"]", NL>>

---------------------------------------------------------------------------
(* getCsvReader: skip the first rune if it is a byte-order mark *)

\* bufio.Reader.ReadRune on the unread stream buf: [rune, err, buf]
ReadRune(buf, stk) ==
    IF buf = <<>> THEN [rune |-> "", err |-> EOF, buf |-> buf]
    ELSE IF Head(buf) = IOFail
    THEN [rune |-> "", err |-> ErrIO,
          buf |-> IF stk THEN buf ELSE Tail(buf)]
    ELSE [rune |-> Head(buf), err |-> NoErr, buf |-> Tail(buf)]

\* the rune read stays read
UnreadRune_dropsRune(rr) == rr.buf

\* bufio.Reader.UnreadRune after the ReadRune that returned rr: the rune is
\* put back; it does nothing when that ReadRune returned no rune
UnreadRune(rr) ==
    IF rr.err = NoErr THEN <<rr.rune>> \o rr.buf ELSE rr.buf

\* package converter: returns (reader, err)
getCsvReader(r, stk) ==
    LET rr == ReadRune(r, stk)
    IN  IF rr.err # NoErr /\ rr.err # EOF
        THEN [reader |-> NewReader(<<>>), err |-> rr.err, fatal |-> FALSE]
        ELSE [reader |-> NewReader(IF rr.rune # BOM THEN UnreadRune(rr)
                                   ELSE rr.buf),
              err |-> NoErr, fatal |-> FALSE]

\* package main: returns the reader; log.Fatal ends the process when the
\* first read fails
main_getCsvReader(r, stk) ==
    LET rr == ReadRune(r, stk)
    IN  IF rr.err # NoErr /\ rr.err # EOF
        THEN [reader |-> NewReader(<<>>), err |-> rr.err, fatal |-> TRUE]
        ELSE [reader |-> NewReader(IF rr.rune # BOM THEN UnreadRune(rr)
                                   ELSE rr.buf),
              err |-> NoErr, fatal |-> FALSE]

---------------------------------------------------------------------------
(* The inputs of a conversion *)

\* the pieces input streams are made of
Chunks ==
    { <<"a", Comma, "b", NL>>,     \* a row of two fields
      <<"a", Comma, "a", NL>>,     \* a row of two equal fields
      <<"a", NL>>,                 \* a row of one field
      <<"b", Quote, NL>>,          \* a quote in a non-quoted field
      <<Quote>>,                   \* opens or closes a quoted field
      <<NL>>,                      \* an empty line
      <<Space>>,                   \* white space
      <<BOM>>,                     \* U+FEFF
      <<IOFail>> }                 \* the source fails to read at this point

Inputs == {Concat(cs) : cs \in SeqsUpTo(Chunks, MaxLines)}

\* the values of options.ColNames: no override, or forced column names
Overrides == { <<>>, << <<"x">>, <<"y">> >> }

\* the most diagnostics kept in the trace and counted; more happen only
\* while a read failure of the source repeats
CountCap == MaxLines + 2

\* a side effect is added to the trace
Log(tr, e) == IF Len(tr) < 2 * CountCap THEN Append(tr, e) ELSE tr

Inc(n) == IF n < CountCap THEN n + 1 ELSE n

Diag(err) == [ev |-> "diag", err |-> err, n |-> 0]

\* a summary that holds no count
Summary_noCount(n) == [ev |-> "summary", err |-> NoErr, n |-> 0]

\* the summary of n skipped rows
Summary(n) == [ev |-> "summary", err |-> NoErr, n |-> n]

Write == [ev |-> "write", err |-> NoErr, n |-> 0]

Init ==
    /\ driver \in {"csv2Json", "Instrument"}
    /\ entry = (IF driver = "Instrument" THEN "Execute" ELSE driver)
    /\ pending = <<>>
    /\ input \in Inputs
    /\ sticky \in (IF IOFail \in Range(input) THEN BOOLEAN ELSE {FALSE})
    /\ options \in [ColNames : Overrides, SkipErrors : BOOLEAN]
    /\ reader = NewReader(<<>>)
    /\ colNames = <<>>
    /\ rowFields = <<>>
    /\ thisRecord = [panic |-> FALSE, rec |-> EmptyRecord]
    /\ records = [isNil |-> TRUE, elems |-> <<>>]
    /\ skipped = 0
    /\ trace = <<>>
    /\ jsonOutput = <<>>
    /\ ret = NoErr
    /\ pc = "start"

---------------------------------------------------------------------------
(* package main: csv2Json(options) *)

\* the field count left as the reader has it
setFieldsPerRecord_omitted(rd, names) == rd

\* reader.FieldsPerRecord = len(colNames)
setFieldsPerRecord(rd, names) == [rd EXCEPT !.FieldsPerRecord = Len(names)]

\* reader := getCsvReader(options.csvInput)
csv2Json_getCsvReader ==
    /\ driver = "csv2Json" /\ pc = "start"
    /\ LET g == main_getCsvReader(input, sticky)
       IN  /\ reader' = g.reader
           /\ IF g.fatal
              THEN pc' = "exit" /\ ret' = g.err
              ELSE pc' = "columns" /\ ret' = ret
    /\ UNCHANGED <<driver, entry, pending, sticky, options, input, colNames,
                   rowFields, thisRecord, records, skipped, trace,
                   jsonOutput>>

\* the column names: options.colNames, or the first row when it is empty
csv2Json_columns ==
    /\ driver = "csv2Json" /\ pc = "columns"
    /\ IF Len(options.ColNames) = 0
       THEN \E rd \in {Read(reader, sticky)} :
                /\ reader' = rd.rd
                /\ IF rd.err # NoErr
                   THEN IF rd.err # EOF
                        THEN /\ ret' = rd.err /\ pc' = "done"
                             /\ UNCHANGED colNames
                        ELSE /\ colNames' = options.ColNames
                             /\ pc' = "loop" /\ UNCHANGED ret
                   ELSE /\ colNames' = rd.record
                        /\ pc' = "loop" /\ UNCHANGED ret
       ELSE /\ colNames' = options.ColNames
            /\ reader' = setFieldsPerRecord(reader, options.ColNames)
            /\ pc' = "loop" /\ UNCHANGED ret
    /\ records' = IF pc' = "loop" THEN makeRecords ELSE records
    /\ UNCHANGED <<driver, entry, pending, sticky, options, input, rowFields,
                   thisRecord, skipped, trace, jsonOutput>>

\* every error but the end of the input is skipped
csv2Json_onError_alwaysSkips(err, skipErrors) ==
    IF err = EOF THEN "break" ELSE "continue"

\* what the row loop does with a non-nil err of reader.Read(): break at the
\* end of the input, continue when errors are skipped, return err otherwise
csv2Json_onError(err, skipErrors) ==
    IF err = EOF THEN "break"
    ELSE IF skipErrors THEN "continue"
    ELSE "return"

\* one iteration of the row loop
csv2Json_row ==
    /\ driver = "csv2Json" /\ pc = "loop"
    /\ \E rd \in {Read(reader, sticky)} :
       LET do == csv2Json_onError(rd.err, options.SkipErrors)
       IN  /\ reader' = rd.rd
           /\ IF rd.err # NoErr
              THEN /\ UNCHANGED <<rowFields, thisRecord, records>>
                   /\ IF do = "break"
                      THEN pc' = "encode" /\ UNCHANGED <<skipped, trace, ret>>
                      ELSE IF do = "continue"
                      THEN /\ skipped' = Inc(skipped)
                           /\ trace' = Log(trace, Diag(rd.err))
                           /\ pc' = "loop" /\ UNCHANGED ret
                      ELSE /\ ret' = rd.err /\ pc' = "defer"
                           /\ UNCHANGED <<skipped, trace>>
              ELSE LET rec == fieldsToRecord(colNames, rd.record)
                   IN  /\ rowFields' = rd.record
                       /\ thisRecord' = rec
                       /\ IF rec.panic
                          THEN pc' = "panic" /\ UNCHANGED records
                          ELSE /\ records' = append(records, rec.rec)
                               /\ pc' = "loop"
                       /\ UNCHANGED <<skipped, trace, ret>>
    /\ UNCHANGED <<driver, entry, pending, sticky, options, input, colNames,
                   jsonOutput>>

\* enc.Encode(allRecords); return nil
csv2Json_encode ==
    /\ driver = "csv2Json" /\ pc = "encode"
    /\ jsonOutput' = jsonOutput \o Encode(records)
    /\ trace' = Log(trace, Write)
    /\ ret' = NoErr
    /\ pc' = "defer"
    /\ UNCHANGED <<driver, entry, pending, sticky, options, input, reader,
                   colNames, rowFields, thisRecord, records, skipped>>

\* the deferred function, which runs when csv2Json returns
csv2Json_deferred ==
    /\ driver = "csv2Json" /\ pc = "defer"
    /\ trace' = IF options.SkipErrors /\ skipped > 0
                THEN Log(trace, Summary(skipped))
                ELSE trace
    /\ pc' = "done"
    /\ UNCHANGED <<driver, entry, pending, sticky, options, input, reader,
                   colNames, rowFields, thisRecord, records, skipped,
                   jsonOutput, ret>>

---------------------------------------------------------------------------
(* package converter: Execute(o) = Instrument(&o) *)

\* reader, err := getCsvReader(o.CsvInput); if err != nil { return err }
Instrument_getCsvReader ==
    /\ driver = "Instrument" /\ pc = "start"
    /\ LET g == getCsvReader(input, sticky)
       IN  /\ reader' = g.reader
           /\ IF g.err # NoErr
              THEN pc' = "done" /\ ret' = g.err
              ELSE pc' = "columns" /\ ret' = ret
    /\ UNCHANGED <<driver, entry, pending, sticky, options, input, colNames,
                   rowFields, thisRecord, records, skipped, trace,
                   jsonOutput>>

\* the first row whatever the error of the read
parseColumnNames_dropsError(rd, stk) ==
    LET r == Read(rd, stk)
    IN  [names |-> r.record, err |-> NoErr, rd |-> r.rd]

\* parseColumnNames: the first row, nil at the end of the input
parseColumnNames(rd, stk) ==
    LET r == Read(rd, stk)
    IN  IF r.err # NoErr /\ r.err # EOF
        THEN [names |-> <<>>, err |-> r.err, rd |-> r.rd]
        ELSE [names |-> r.record, err |-> NoErr, rd |-> r.rd]

\* o.ColNames from the first row when it is empty; the field count to
\* enforce; then the entry of buildRecords.  o points to the options of
\* the caller of Instrument(&o), and to a copy of them under Execute(o).
Instrument_columns ==
    /\ driver = "Instrument" /\ pc = "columns"
    /\ IF Len(options.ColNames) = 0
       THEN \E c \in {parseColumnNames(reader, sticky)} :
                IF c.err # NoErr
                THEN /\ ret' = c.err /\ pc' = "done"
                     /\ reader' = c.rd
                     /\ UNCHANGED <<colNames, records>>
                ELSE /\ colNames' = c.names
                     /\ reader' = setFieldsPerRecord(c.rd, c.names)
                     /\ records' = makeRecords
                     /\ pc' = "loop" /\ UNCHANGED ret
       ELSE /\ colNames' = options.ColNames
            /\ reader' = setFieldsPerRecord(reader, options.ColNames)
            /\ records' = makeRecords
            /\ pc' = "loop" /\ UNCHANGED ret
    /\ options' = IF entry = "Instrument" /\ pc' = "loop"
                  THEN [options EXCEPT !.ColNames = colNames']
                  ELSE options
    /\ UNCHANGED <<driver, entry, pending, sticky, input, rowFields,
                   thisRecord, skipped, trace, jsonOutput>>

\* the loop ends at the first error
buildRecords_onError_alwaysBreaks(err, skipErrors) == "break"

\* what the loop of buildRecords does with a non-nil err of reader.Read():
\* break at the end of the input (err = nil), continue when errors are
\* skipped, break otherwise
buildRecords_onError(err, skipErrors) ==
    IF err = EOF THEN "break"
    ELSE IF skipErrors THEN "continue"
    ELSE "break"

\* one iteration of the loop of buildRecords
Instrument_row ==
    /\ driver = "Instrument" /\ pc = "loop"
    /\ \E rd \in {Read(reader, sticky)} :
       LET do == buildRecords_onError(rd.err, options.SkipErrors)
       IN  /\ reader' = rd.rd
           /\ IF rd.err # NoErr
              THEN /\ UNCHANGED <<rowFields, thisRecord, records>>
                   /\ IF do = "continue"
                      THEN /\ skipped' = Inc(skipped)
                           /\ trace' = Log(trace, Diag(rd.err))
                           /\ pc' = "loop"
                      ELSE pc' = "summary" /\ UNCHANGED <<skipped, trace>>
              ELSE LET rec == fieldsToRecord(colNames, rd.record)
                   IN  /\ rowFields' = rd.record
                       /\ thisRecord' = rec
                       /\ IF rec.panic
                          THEN pc' = "panic" /\ UNCHANGED records
                          ELSE /\ records' = append(records, rec.rec)
                               /\ pc' = "loop"
                       /\ UNCHANGED <<skipped, trace>>
    /\ UNCHANGED <<driver, entry, pending, sticky, options, input, colNames,
                   jsonOutput, ret>>

\* the result err of buildRecords.  The loop declares a variable err of its
\* own (rowFields, err := reader.Read()), so no statement assigns the named
\* result and it keeps its zero value.
buildRecords_err == NoErr

\* the end of buildRecords (the summary, the return) and the test of its
\* result in Instrument
Instrument_buildRecords_return ==
    /\ driver = "Instrument" /\ pc = "summary"
    /\ trace' = IF skipped > 0 THEN Log(trace, Summary(skipped)) ELSE trace
    /\ IF buildRecords_err # NoErr
       THEN ret' = buildRecords_err /\ pc' = "done"
       ELSE pc' = "encode" /\ UNCHANGED ret
    /\ UNCHANGED <<driver, entry, pending, sticky, options, input, reader,
                   colNames, rowFields, thisRecord, records, skipped,
                   jsonOutput>>

\* return json.NewEncoder(o.JsonOutput).Encode(&records)
Instrument_encode ==
    /\ driver = "Instrument" /\ pc = "encode"
    /\ jsonOutput' = jsonOutput \o Encode(records)
    /\ trace' = Log(trace, Write)
    /\ ret' = NoErr
    /\ pc' = "done"
    /\ UNCHANGED <<driver, entry, pending, sticky, options, input, reader,
                   colNames, rowFields, thisRecord, records, skipped>>

---------------------------------------------------------------------------
(* The conversions *)

Next ==
    \/ csv2Json_getCsvReader
    \/ csv2Json_columns
    \/ csv2Json_row
    \/ csv2Json_encode
    \/ csv2Json_deferred
    \/ Instrument_getCsvReader
    \/ Instrument_columns
    \/ Instrument_row
    \/ Instrument_buildRecords_return
    \/ Instrument_encode

Spec == Init /\ [][Next]_vars

---------------------------------------------------------------------------
(* fieldsToRecord on its own: one call on arbitrary arguments *)

Names == { <<"a">>, <<"b">> }
Values == { <<"1">>, <<"2">> }

InitRecord ==
    /\ driver = "fieldsToRecord"
    /\ entry = "fieldsToRecord"
    /\ pending = <<>>
    /\ sticky = FALSE
    /\ options = [ColNames |-> <<>>, SkipErrors |-> FALSE]
    /\ input = <<>>
    /\ reader = NewReader(<<>>)
    /\ colNames \in SeqsUpTo(Names, MaxCols)
    /\ rowFields \in SeqsUpTo(Values, MaxFields)
    /\ thisRecord = [panic |-> FALSE, rec |-> EmptyRecord]
    /\ records = [isNil |-> TRUE, elems |-> <<>>]
    /\ skipped = 0
    /\ trace = <<>>
    /\ jsonOutput = <<>>
    /\ ret = NoErr
    /\ pc = "call"

\* thisRecord := fieldsToRecord(&colNames, &rowFields)
Call_fieldsToRecord ==
    /\ driver = "fieldsToRecord" /\ pc = "call"
    /\ thisRecord' = fieldsToRecord(colNames, rowFields)
    /\ pc' = IF thisRecord'.panic THEN "panic" ELSE "returned"
    /\ UNCHANGED <<driver, entry, pending, sticky, options, input, reader,
                   colNames, rowFields, records, skipped, trace, jsonOutput,
                   ret>>

NextRecord == Call_fieldsToRecord

SpecRecord == InitRecord /\ [][NextRecord]_vars

---------------------------------------------------------------------------
(* package main, the first version: csv2Json(fd) with the column names in  *)
(* the package variable colNames, which the --columns flag fills           *)

\* reader := csv.NewReader(fd); the column names: the package variable, or
\* the first row when it is empty, stored in the package variable
csv2Json_fd_columns ==
    /\ driver = "csv2Json_fd" /\ pc = "start"
    /\ IF Len(colNames) = 0
       THEN \E rd \in {Read(NewReader(input), sticky)} :
                /\ reader' = rd.rd
                /\ IF rd.err # NoErr
                   THEN /\ pc' = IF rd.err = EOF THEN "done" ELSE "exit"
                        /\ ret' = IF rd.err = EOF THEN ret ELSE rd.err
                        /\ UNCHANGED colNames
                   ELSE /\ colNames' = rd.record
                        /\ pc' = "loop" /\ UNCHANGED ret
       ELSE /\ reader' = setFieldsPerRecord(NewReader(input), colNames)
            /\ pc' = "loop" /\ UNCHANGED <<colNames, ret>>
    /\ records' = IF pc' = "loop" THEN makeRecords ELSE records
    /\ UNCHANGED <<driver, entry, pending, sticky, options, input, rowFields,
                   thisRecord, skipped, trace, jsonOutput>>

\* one iteration of the row loop: log.Fatalln on every error but the end of
\* the input
csv2Json_fd_row ==
    /\ driver = "csv2Json_fd" /\ pc = "loop"
    /\ \E rd \in {Read(reader, sticky)} :
          /\ reader' = rd.rd
          /\ IF rd.err = EOF
             THEN /\ pc' = "encode"
                  /\ UNCHANGED <<rowFields, thisRecord, records, ret>>
             ELSE IF rd.err # NoErr
             THEN /\ pc' = "exit" /\ ret' = rd.err
                  /\ UNCHANGED <<rowFields, thisRecord, records>>
             ELSE LET rec == fieldsToRecord(colNames, rd.record)
                  IN  /\ rowFields' = rd.record
                      /\ thisRecord' = rec
                      /\ IF rec.panic
                         THEN pc' = "panic" /\ UNCHANGED records
                         ELSE /\ records' = append(records, rec.rec)
                              /\ pc' = "loop"
                      /\ UNCHANGED ret
    /\ UNCHANGED <<driver, entry, pending, sticky, options, input, colNames,
                   skipped, trace, jsonOutput>>

\* enc.Encode(allRecords)
csv2Json_fd_encode ==
    /\ driver = "csv2Json_fd" /\ pc = "encode"
    /\ jsonOutput' = jsonOutput \o Encode(records)
    /\ trace' = Log(trace, Write)
    /\ pc' = "done"
    /\ UNCHANGED <<driver, entry, pending, sticky, options, input, reader,
                   colNames, rowFields, thisRecord, records, skipped, ret>>

---------------------------------------------------------------------------
(* A caller that converts one input after another in one process, with    *)
(* the configuration it made once                                         *)

MaxCallLines == 2

\* the inputs of the invocations
CallInputs ==
    {Concat(cs) : cs \in SeqsUpTo(Chunks \ {<<IOFail>>}, MaxCallLines)}

\* the drivers and the ways to invoke them
Entries ==
    { <<"csv2Json", "csv2Json">>, <<"csv2Json_fd", "csv2Json_fd">>,
      <<"Instrument", "Execute">>, <<"Instrument", "Instrument">> }

\* the configuration holds no column names; two inputs are to convert
InitCalls ==
    /\ \E e \in Entries : driver = e[1] /\ entry = e[2]
    /\ input \in CallInputs
    /\ pending \in {<<s>> : s \in CallInputs}
    /\ sticky = FALSE
    /\ options \in [ColNames : {<<>>}, SkipErrors : BOOLEAN]
    /\ reader = NewReader(<<>>)
    /\ colNames = <<>>
    /\ rowFields = <<>>
    /\ thisRecord = [panic |-> FALSE, rec |-> EmptyRecord]
    /\ records = [isNil |-> TRUE, elems |-> <<>>]
    /\ skipped = 0
    /\ trace = <<>>
    /\ jsonOutput = <<>>
    /\ ret = NoErr
    /\ pc = "start"

\* the conversion has returned and the caller invokes the driver on the
\* next input, with the same options and a new output: the variables of
\* the function start afresh, the package variable colNames stays
Caller_callAgain ==
    /\ pc = "done" /\ pending # <<>>
    /\ input' = Head(pending)
    /\ pending' = Tail(pending)
    /\ reader' = NewReader(<<>>)
    /\ colNames' = IF driver = "csv2Json_fd" THEN colNames ELSE <<>>
    /\ rowFields' = <<>>
    /\ thisRecord' = [panic |-> FALSE, rec |-> EmptyRecord]
    /\ records' = [isNil |-> TRUE, elems |-> <<>>]
    /\ skipped' = 0
    /\ trace' = <<>>
    /\ jsonOutput' = <<>>
    /\ ret' = NoErr
    /\ pc' = "start"
    /\ UNCHANGED <<driver, entry, sticky, options>>

NextCalls ==
    \/ Next
    \/ csv2Json_fd_columns
    \/ csv2Json_fd_row
    \/ csv2Json_fd_encode
    \/ Caller_callAgain

SpecCalls == InitCalls /\ [][NextCalls]_vars

---------------------------------------------------------------------------
(* What an input holds, read off the input itself: the rows the reader     *)
(* yields from the start of the stream to its end, whatever a driver does  *)
(* with them.                                                              *)

NoOverride == options.ColNames = <<>>

IOFree == IOFail \notin Range(input)

\* the successive results of Read from reader rd on, up to the end of the
\* input (at most fuel of them): the row, the error, the reader before and
\* after the read
RECURSIVE Rows(_, _, _)
Rows(rd, stk, fuel) ==
    IF fuel = 0 THEN <<>>
    ELSE LET r == Read(rd, stk)
         IN  IF r.err = EOF THEN <<>>
             ELSE <<[record |-> r.record, err |-> r.err,
                     before |-> rd, after |-> r.rd]>>
                  \o Rows(r.rd, stk, fuel - 1)

\* the stream behind the byte-order-mark peek
Opened == getCsvReader(input, sticky)

PeekOK == Opened.err = NoErr

\* the read of the first row, which is the header when there is no override
HeaderRead == Read(Opened.reader, sticky)

HeaderOK == NoOverride /\ PeekOK /\ HeaderRead.err = NoErr

\* the columns are resolved without an error
ColumnsOK ==
    PeekOK /\ (NoOverride => HeaderRead.err \in {NoErr, EOF})

\* the first n data rows: of all rows under an override, of the rows after
\* the first otherwise
DataRowsUpTo(n) ==
    Rows(IF NoOverride THEN HeaderRead.rd
         ELSE [Opened.reader EXCEPT
                 !.FieldsPerRecord = Len(options.ColNames)],
         sticky, n)

\* the data rows: an input of n runes holds at most n of them
DataRows == DataRowsUpTo(Len(input) + 1)

\* the input holds no data row
NoDataRow == DataRowsUpTo(1) = <<>>

\* the index of the first row of rows whose error is of a kind in K, 0 when
\* there is none
RECURSIVE FirstOfKind(_, _, _)
FirstOfKind(rows, K, i) ==
    IF i > Len(rows) THEN 0
    ELSE IF rows[i].err.kind \in K THEN i
    ELSE FirstOfKind(rows, K, i + 1)

ErrorKinds == {"ErrFieldCount", "ErrQuote", "ErrBareQuote", "io"}

\* the first data row that is not read without error
FirstBad == FirstOfKind(DataRows, ErrorKinds, 1)

\* the first data row whose field count differs from the enforced one
FirstMismatch == FirstOfKind(DataRows, {"ErrFieldCount"}, 1)

\* the well-formed rows among rows, in order
RECURSIVE GoodRows(_)
GoodRows(rows) ==
    IF rows = <<>> THEN <<>>
    ELSE (IF Head(rows).err = NoErr THEN <<Head(rows).record>> ELSE <<>>)
         \o GoodRows(Tail(rows))

\* the records of a sequence of rows under column names cols
RecordsOf(cols, rows) ==
    [i \in 1..Len(rows) |-> fieldsToRecord(cols, rows[i]).rec]

RECURSIVE CountNL(_)
CountNL(s) ==
    IF s = <<>> THEN 0
    ELSE (IF Head(s) = NL THEN 1 ELSE 0) + CountNL(Tail(s))

RECURSIVE LeadingNL(_)
LeadingNL(s) ==
    IF s # <<>> /\ Head(s) = NL THEN 1 + LeadingNL(Tail(s)) ELSE 0

\* the line of the input on which a data row starts: one more than the
\* newlines before its first rune (for an input without read failures)
LineOf(row) ==
    LET whole == Opened.reader.buf
        rest == row.before.buf
    IN  1 + CountNL(SubSeq(whole, 1, Len(whole) - Len(rest)))
          + LeadingNL(rest)

Returned == pc = "done"

---------------------------------------------------------------------------
(* Properties *)

\* C1: Execute (Instrument and buildRecords) with SkipErrors false: when the
\* columns are resolved and some data row raises a parse error (a field
\* count mismatch or a quote error), Execute returns that error.
C1_ExecuteReturnsRowError ==
    (/\ driver = "Instrument" /\ Returned
     /\ ~options.SkipErrors /\ ColumnsOK
     /\ FirstBad > 0 /\ IsParseError(DataRows[FirstBad].err))
    => ret = DataRows[FirstBad].err

\* C2: in both drivers nothing is written to the output before the row loop
\* has reached the end of the input: once output exists the whole input is
\* consumed, no data row has raised an error that was not skipped, and the
\* output is the encoding of the records of all well-formed data rows.
C2_OutputOnlyAfterEndOfInput ==
    (IOFree /\ ColumnsOK /\ jsonOutput # <<>>)
    => /\ reader.buf = <<>>
       /\ ~options.SkipErrors => FirstBad = 0
       /\ jsonOutput = Encode([isNil |-> FALSE,
                               elems |-> RecordsOf(colNames,
                                                   GoodRows(DataRows))])

\* C3 as stated: csv2Json, skipErrors false, columns from the header: when
\* line k holds the first data row whose field count differs from the
\* header's, csv2Json returns the field count error of line k and reads no
\* row after it.
C3_FirstMismatchReported ==
    (/\ driver = "csv2Json" /\ Returned
     /\ ~options.SkipErrors /\ HeaderOK /\ IOFree
     /\ FirstMismatch > 0)
    => /\ ret = ErrFieldCount(LineOf(DataRows[FirstMismatch]))
       /\ reader.buf = DataRows[FirstMismatch].after.buf

\* when the first row of rows that is not read without error is a field
\* count mismatch: its error is returned, the reader stands behind it, the
\* records are those of the rows before it under cols, nothing is written
AbortsAtFirstBad(rows, cols) ==
    \A bad \in {FirstOfKind(rows, ErrorKinds, 1)} :
        (bad > 0 /\ rows[bad].err.kind = "ErrFieldCount")
        => /\ ret = ErrFieldCount(LineOf(rows[bad]))
           /\ reader.buf = rows[bad].after.buf
           /\ records.elems =
                RecordsOf(cols, GoodRows(SubSeq(rows, 1, bad - 1)))
           /\ jsonOutput = <<>>

\* C3 amended: csv2Json, skipErrors false, columns from the header: when
\* line k holds the first data row whose field count differs from the
\* header's and every data row before it is read without error, csv2Json
\* returns the field count error of line k, no row after line k is read or
\* converted, and nothing is written.
C3_FirstMismatchAborts ==
    (/\ driver = "csv2Json" /\ Returned
     /\ ~options.SkipErrors /\ HeaderOK)
    => AbortsAtFirstBad(DataRows, HeaderRead.record)

\* a mismatch on a line after the second is reported, with a record
\* already built and rows left unread
W3_MismatchWithRowsLeft ==
    /\ driver = "csv2Json" /\ Returned /\ ~options.SkipErrors /\ HeaderOK
    /\ ret.kind = "ErrFieldCount" /\ ret.line > 2
    /\ FirstBad > 0 /\ DataRows[FirstBad].err = ret
    /\ Len(records.elems) >= 1
    /\ reader.buf # <<>>

\* C4: with no override a parse error on the first row is fatal whatever
\* skip_errors is: the conversion returns that error, holds no record,
\* skips nothing and writes nothing.
C4_HeaderErrorFatal ==
    (/\ pc \notin {"start", "columns"}
     /\ NoOverride /\ PeekOK /\ IsParseError(HeaderRead.err))
    => /\ Returned
       /\ ret = HeaderRead.err
       /\ records.elems = <<>>
       /\ skipped = 0 /\ trace = <<>>
       /\ jsonOutput = <<>>

\* a conversion with skip_errors set has returned the header's quote error
W4_HeaderErrorWithSkip ==
    /\ Returned /\ NoOverride /\ options.SkipErrors
    /\ IsParseError(HeaderRead.err) /\ ret = HeaderRead.err
    /\ driver = "Instrument" /\ IOFree /\ reader.buf # <<>>

\* C5: with skip_errors set and the columns resolved, for every input that
\* mixes well-formed and malformed data rows the conversion returns no
\* error and its output is the array of the records of the well-formed data
\* rows, one each, in input order; a malformed row adds no record.
C5_SkipKeepsGoodRows ==
    (options.SkipErrors /\ Returned /\ IOFree /\ ColumnsOK)
    => /\ ret = NoErr
       /\ NoOverride => colNames = HeaderRead.record
       /\ ~records.isNil
       /\ records.elems = RecordsOf(colNames, GoodRows(DataRows))
       /\ Len(records.elems) + skipped = Len(DataRows)
       /\ jsonOutput = Encode(records)

\* a conversion has skipped a quote error and a field count mismatch and
\* kept a record
W5_SkippedAndKept ==
    /\ Returned /\ options.SkipErrors /\ HeaderOK /\ IOFree
    /\ skipped >= 1 /\ Len(records.elems) >= 1
    /\ \E i \in 1..Len(DataRows) : DataRows[i].err.kind = "ErrBareQuote"
    /\ jsonOutput # <<>>

\* the last index of s that holds x
LastIndex(s, x) ==
    CHOOSE i \in 1..Len(s) : s[i] = x /\ \A j \in (i + 1)..Len(s) : s[j] # x

\* a well-formed input under no override: a header row and data rows that
\* are all read without error
WellFormedWithHeader == HeaderOK /\ IOFree /\ FirstBad = 0

\* recs holds one record for each row of rows, in order; each record has
\* the names of hdr as its keys and maps a name to the row's field at the
\* last position at which the name occurs in hdr
ZipLastWins(recs, hdr, rows) ==
    /\ Len(recs) = Len(rows)
    /\ \A i \in 1..Len(rows) :
         /\ DOMAIN recs[i] = Range(hdr)
         /\ \A j \in 1..Len(hdr) :
              recs[i][hdr[j]] = rows[i].record[LastIndex(hdr, hdr[j])]

\* C6 as stated: with no column override and a well-formed input of a
\* header row and N data rows, the output is the array of exactly N
\* records, the i-th built from the i-th data row, and each record maps the
\* header name at every position to the row's field at that position.
C6_RecordsZipHeader ==
    (Returned /\ WellFormedWithHeader)
    => /\ ret = NoErr
       /\ Len(records.elems) = Len(DataRows)
       /\ jsonOutput = Encode(records)
       /\ \A i \in 1..Len(DataRows) :
            \A j \in 1..Len(HeaderRead.record) :
               /\ HeaderRead.record[j] \in DOMAIN records.elems[i]
               /\ records.elems[i][HeaderRead.record[j]]
                    = DataRows[i].record[j]

\* C6 amended: with no column override and a well-formed input of a header
\* row and N data rows, the output is the array of exactly N records, the
\* i-th built from the i-th data row; each record has the header names as
\* its keys and maps a header name to the row's field at the last position
\* at which that name occurs in the header (the same position when the
\* header names are distinct).
C6_RecordsZipHeaderLastWins ==
    (Returned /\ WellFormedWithHeader)
    => /\ ret = NoErr
       /\ jsonOutput = Encode(records)
       /\ ZipLastWins(records.elems, HeaderRead.record, DataRows)

\* two data rows are converted under a header that holds one name twice,
\* the second row holding different fields at the two positions
W6_TwoRowsRepeatedName ==
    /\ WellFormedWithHeader /\ Returned
    /\ Len(HeaderRead.record) = 2
    /\ HeaderRead.record[1] = HeaderRead.record[2]
    /\ Len(records.elems) = 2
    /\ DataRows[2].record[1] # DataRows[2].record[2]
    /\ records.elems[1] # records.elems[2]

\* the read r gave a row of L fields
FirstIsRow(r, L) == r.err = NoErr /\ Len(r.record) = L

\* every row of rows is read without error
AllRowsGood(rows) == FirstOfKind(rows, ErrorKinds, 1) = 0

\* recs holds the record of each row of rows under cols, in order
OneRecordPerRow(recs, cols, rows) ==
    /\ Len(recs) = Len(rows)
    /\ recs = RecordsOf(cols, GoodRows(rows))

\* when every row of rows is read without error, the conversion returns
\* no error and its records, which it writes, are one for each row
AllConverted(rows) ==
    AllRowsGood(rows)
    => /\ ret = NoErr
       /\ OneRecordPerRow(records.elems, options.ColNames, rows)
       /\ jsonOutput = Encode(records)

\* C7: with a column override of length L the override is the column
\* names, the reader enforces L fields on every row, the first row of the
\* input is converted as a data row, and an input of M rows of L fields
\* each yields exactly M records.
C7_OverrideColumns ==
    (~NoOverride /\ pc \notin {"start", "columns"} /\ PeekOK)
    => LET L == Len(options.ColNames)
       IN  /\ colNames = options.ColNames
           /\ reader.FieldsPerRecord = L
           /\ rowFields # <<>> => Len(rowFields) = L
           /\ (pc \notin {"loop", "panic"} /\ FirstIsRow(HeaderRead, L))
              => /\ records.elems # <<>>
                 /\ records.elems[1]
                      = fieldsToRecord(options.ColNames,
                                       HeaderRead.record).rec
           /\ (Returned /\ IOFree) => AllConverted(DataRows)

\* three rows of two fields are converted under an override of two names
W7_ThreeRowsUnderOverride ==
    /\ ~NoOverride /\ Returned /\ IOFree /\ FirstBad = 0
    /\ Len(options.ColNames) = 2
    /\ Len(DataRows) = 3 /\ Len(records.elems) = 3
    /\ DOMAIN records.elems[1] = Range(options.ColNames)

\* C8: an input with no data row yields the empty JSON array and no error:
\* an empty input with or without an override, and an input that holds only
\* a header row.
C8_NoDataRowsEmptyArray ==
    (Returned /\ IOFree /\ ColumnsOK /\ NoDataRow)
    => /\ ret = NoErr
       /\ jsonOutput = <<"[", "]", NL>>

\* an input of white space only is converted: its one row is the header
W8_WhitespaceOnly ==
    /\ Returned /\ NoOverride /\ Range(input) = {Space}
    /\ colNames # <<>> /\ Range(colNames[1]) = {Space}
    /\ jsonOutput # <<>>

\* the call of fieldsToRecord is over
Called == driver = "fieldsToRecord" /\ pc # "call"

\* C9: fieldsToRecord never fails on a short row: for a row of fewer fields
\* than columns it returns the record that maps colNames[i] to rowValues[i]
\* for each index i of the row and holds no other column name.
C9_ShortRowGivesPrefixRecord ==
    (Called /\ Len(rowFields) < Len(colNames))
    => /\ ~thisRecord.panic
       /\ DOMAIN thisRecord.rec
            = {colNames[i] : i \in 1..Len(rowFields)}
       /\ \A i \in 1..Len(rowFields) :
            thisRecord.rec[colNames[i]] = rowFields[i]

\* C10 as stated, for the record returned: on a row of at least as many
\* fields as columns fieldsToRecord returns a record whose keys are exactly
\* the column names, the column name at every index mapped to the row value
\* at that index; no columns give the empty record.
C10_LongRowZips ==
    (Called /\ Len(rowFields) >= Len(colNames))
    => /\ ~thisRecord.panic
       /\ DOMAIN thisRecord.rec = Range(colNames)
       /\ \A i \in 1..Len(colNames) :
            thisRecord.rec[colNames[i]] = rowFields[i]
       /\ colNames = <<>> => thisRecord.rec = EmptyRecord

\* C10 amended: on a row of at least as many fields as columns
\* fieldsToRecord returns a record whose keys are exactly the column names,
\* each column name mapped to the row value at the last index at which the
\* name occurs (the same index when the column names are distinct); row
\* values at indices with no column are excluded; no columns give the empty
\* record; the arguments are left unchanged.
C10_LongRowZipsLastWins ==
    /\ [](Called /\ Len(rowFields) >= Len(colNames)
          => /\ ~thisRecord.panic
             /\ DOMAIN thisRecord.rec = Range(colNames)
             /\ \A i \in 1..Len(colNames) :
                  thisRecord.rec[colNames[i]]
                    = rowFields[LastIndex(colNames, colNames[i])]
             /\ colNames = <<>> => thisRecord.rec = EmptyRecord)
    /\ [][colNames' = colNames /\ rowFields' = rowFields]_vars

\* fieldsToRecord has returned for two columns and a row of three fields
W10_RowLongerThanColumns ==
    /\ Called /\ pc = "returned"
    /\ Len(colNames) = 2 /\ Len(rowFields) = 3
    /\ colNames[1] # colNames[2]
    /\ rowFields[1] # rowFields[2]
    /\ Cardinality(DOMAIN thisRecord.rec) = 2

---------------------------------------------------------------------------
(* The byte-order mark *)

\* the stream without a byte-order mark in front of it, read off the stream
StripBOM(s) == IF s # <<>> /\ Head(s) = BOM THEN Tail(s) ELSE s

\* the first read of the stream does not fail
PeekFree == input = <<>> \/ Head(input) # IOFail

\* the first row of the stream behind the byte-order mark, read under the
\* field count of the override when there is one
FirstRowStripped ==
    Read([NewReader(StripBOM(input)) EXCEPT
            !.FieldsPerRecord = Len(options.ColNames)],
         sticky)

\* the input holds a byte-order mark in front and no other
OneMark ==
    input # <<>> /\ Head(input) = BOM /\ BOM \notin Range(Tail(input))

\* the column names and the first record agree with the first row, first,
\* of the input behind the mark
FirstRowHandedOn(first) ==
    /\ (NoOverride /\ first.err \in {NoErr, EOF})
       => /\ colNames = first.record
          /\ (OneMark /\ colNames # <<>>)
             => BOM \notin Range(colNames[1])
    /\ (~NoOverride /\ records.elems # <<>> /\ first.err = NoErr)
       => /\ records.elems[1] = fieldsToRecord(colNames, first.record).rec
          /\ OneMark => BOM \notin Range(records.elems[1][colNames[1]])

\* C11: getCsvReader hands on the input without a leading U+FEFF and every
\* other input as it is, nothing lost and nothing twice, the empty input
\* included; so the column names of a header are the first row of the
\* input behind the mark, the first record under an override is built from
\* that row, and the mark in front of an input that holds no other is in
\* neither the first column name nor the first value.
C11_BomStripped ==
    PeekFree
    => /\ pc = "columns" => reader = NewReader(StripBOM(input))
       /\ pc \notin {"start", "columns"} => FirstRowHandedOn(FirstRowStripped)

\* an input with a mark in front of a header and a data row is converted
W11_MarkBeforeHeader ==
    /\ Returned /\ NoOverride /\ input # <<>> /\ Head(input) = BOM
    /\ colNames = << <<"a">>, <<"b">> >>
    /\ Len(records.elems) = 1
    /\ jsonOutput # <<>>

---------------------------------------------------------------------------
(* Read failures of the source *)

\* the first read of the input fails with an error that is not the end of
\* the input
PeekFails == input # <<>> /\ Head(input) = IOFail

\* C12: when the first read of the input (the peek for the byte-order mark)
\* fails with an error other than the end of the input, the driver returns
\* that error to its caller: the process goes on, no row is read and
\* nothing is written.
C12_PeekFailureReturned ==
    (PeekFails /\ pc # "start")
    => /\ Returned
       /\ ret = ErrIO
       /\ reader.numLine = 0 /\ records.elems = <<>>
       /\ jsonOutput = <<>> /\ trace = <<>>

\* the first data row whose read fails with an error of the source
FirstIO == FirstOfKind(DataRows, {"io"}, 1)

\* the read of row has been made
ReadDone(row) ==
    pc \notin {"start", "columns"} /\ reader.numLine >= row.after.numLine

\* C13: with skip_errors set, a read failure of the source on a data row is
\* not skipped: once that read is made no further line is read, nothing is
\* written, and the conversion returns the failure.
C13_ReadFailureAborts ==
    (options.SkipErrors /\ ColumnsOK /\ FirstIO > 0)
    => (ReadDone(DataRows[FirstIO])
        => /\ reader.numLine = DataRows[FirstIO].after.numLine
           /\ jsonOutput = <<>>
           /\ Returned => ret = ErrIO)

---------------------------------------------------------------------------
(* The summary of the skipped rows *)

\* the positions of the trace that hold an event of kind ev
Events(ev) == {i \in 1..Len(trace) : trace[i].ev = ev}

\* every event of kind e1 comes before every event of kind e2
Before(e1, e2) == \A i \in Events(e1) : \A j \in Events(e2) : i < j

\* what the drivers share: once a conversion has returned, one summary
\* that holds the count when a row was skipped and none otherwise; no
\* summary while the row loop runs, and none before a diagnostic of a row
SummaryOnceAfterLoop ==
    /\ (Returned /\ skipped > 0)
       => /\ Cardinality(Events("summary")) = 1
          /\ \A i \in Events("summary") : trace[i].n = skipped
    /\ skipped = 0 => Events("summary") = {}
    /\ pc = "loop" => Events("summary") = {}
    /\ Before("diag", "summary")

\* C14 as stated: in both drivers one summary when a row was skipped, with
\* the count, after the row loop and before the first byte of output; no
\* summary when no row was skipped.
C14_SummaryBeforeOutput ==
    /\ SummaryOnceAfterLoop
    /\ Before("summary", "write")
    /\ (skipped > 0 /\ jsonOutput # <<>>) => Events("summary") # {}

\* C14 amended: in both drivers one summary when a row was skipped, with
\* the count, after the row loop; in Instrument (buildRecords) before the
\* first byte of output, in csv2Json, which defers it to its return, after
\* the output is written; no summary when no row was skipped.
C14_SummaryAfterLoop ==
    /\ SummaryOnceAfterLoop
    /\ driver = "Instrument"
       => /\ Before("summary", "write")
          /\ (skipped > 0 /\ jsonOutput # <<>>) => Events("summary") # {}
    /\ driver = "csv2Json" => Before("write", "summary")

\* a conversion by csv2Json has skipped two rows and written a record
W14_TwoSkippedThenOutput ==
    /\ driver = "csv2Json" /\ Returned /\ skipped = 2
    /\ Len(records.elems) >= 1
    /\ Events("summary") # {} /\ Events("write") # {}

---------------------------------------------------------------------------
(* One conversion after another *)

\* the caller has made its second invocation
SecondCall == pending = <<>>

\* the first row of the current input as the driver's reader yields it
OwnFirstRow ==
    Read(NewReader(IF driver = "csv2Json_fd" THEN input
                   ELSE StripBOM(input)),
         sticky)

\* C15: a conversion keeps no state and leaves the configuration of its
\* caller as it is: after a conversion under an empty column override the
\* override the caller holds is still empty (the options of the caller, and
\* the package variable when the next call starts), and the second
\* conversion takes its columns from the first row of its own input.
C15_NoStateBetweenCalls ==
    /\ options.ColNames = <<>>
    /\ (driver = "csv2Json_fd" /\ pc = "start") => colNames = <<>>
    /\ (SecondCall /\ pc \in {"loop", "encode", "summary", "defer", "done"}
        /\ OwnFirstRow.err \in {NoErr, EOF})
       => colNames = OwnFirstRow.record

---------------------------------------------------------------------------
(* The rows that reach fieldsToRecord *)

\* C16: in every state of a conversion the row of the latest call of
\* fieldsToRecord holds as many fields as there are resolved column names
\* (the reader rejects every other row before), so the call does not fail
\* and every record of the collection has exactly the column names as its
\* keys.
C16_RowsMatchColumns ==
    /\ pc # "panic" /\ ~thisRecord.panic
    /\ rowFields # <<>>
       => /\ Len(rowFields) = Len(colNames)
          /\ thisRecord.rec = fieldsToRecord(colNames, rowFields).rec
          /\ records.elems # <<>>
          /\ records.elems[Len(records.elems)] = thisRecord.rec
    /\ \A i \in 1..Len(records.elems) :
         DOMAIN records.elems[i] = Range(colNames)

\* under an override and skip_errors a row of another field count was
\* rejected and two rows were converted
W16_RejectedAndConverted ==
    /\ Returned /\ ~NoOverride /\ options.SkipErrors /\ IOFree
    /\ \E i \in Events("diag") : trace[i].err.kind = "ErrFieldCount"
    /\ Len(records.elems) = 2
    /\ Len(rowFields) = 2

---------------------------------------------------------------------------
(* Termination *)

MaxLiveLines == 3

\* one conversion of a short input, its source failing for good or not
InitLive ==
    /\ driver \in {"csv2Json", "Instrument"}
    /\ entry = (IF driver = "Instrument" THEN "Execute" ELSE driver)
    /\ pending = <<>>
    /\ input \in {Concat(cs) : cs \in SeqsUpTo(Chunks, MaxLiveLines)}
    /\ sticky \in (IF IOFail \in Range(input) THEN BOOLEAN ELSE {FALSE})
    /\ options \in [ColNames : Overrides, SkipErrors : BOOLEAN]
    /\ reader = NewReader(<<>>)
    /\ colNames = <<>>
    /\ rowFields = <<>>
    /\ thisRecord = [panic |-> FALSE, rec |-> EmptyRecord]
    /\ records = [isNil |-> TRUE, elems |-> <<>>]
    /\ skipped = 0
    /\ trace = <<>>
    /\ jsonOutput = <<>>
    /\ ret = NoErr
    /\ pc = "start"

\* a conversion takes its next step as long as it has one
SpecLive == InitLive /\ [][Next]_vars /\ WF_vars(Next)

\* the conversion is over: it has returned, or the process has ended
Over == pc \in {"done", "exit", "panic"}

\* C17: every conversion is over at some time, whatever the input stream,
\* a stream whose reads keep failing under skip_errors included.
C17_ConversionReturns == <>Over

=============================================================================
